---- MODULE Spec2Model ----
(***************************************************************************)
(* Model of the ideas store of idea-notes (context/ideas-context,          *)
(* src/unnamed/part_004): the IdeasProvider component with its React       *)
(* state `ideas`, the two refs, the hydration effect, the autosave effect  *)
(* and the six store operations, together with the AsyncStorage slot the   *)
(* provider reads once and writes after every change.                      *)
(*                                                                         *)
(* JavaScript values.  An object is a record whose domain is the set of    *)
(* keys it has.  The booleans of the two optional flags are the strings    *)
(* "true" and "false" and a key that holds undefined holds "undefined", so *)
(* that a flag can be compared whatever it holds.  An id, the string      *)
(* `${Date.now()}-${random}`, is the pair <<time, random>> (the two parts  *)
(* are separated by the only "-" of the string, so the pair determines the *)
(* string and the string the pair).  The content of the durable slot is    *)
(* the value its text encodes: kind "absent" (getItem gives null),         *)
(* "unreadable" (getItem is rejected), "corrupt" (JSON.parse throws),      *)
(* "nonseq" (valid JSON, not an array) or "array" with the parsed items.   *)
(***************************************************************************)
EXTENDS Integers, Sequences, FiniteSets, TLC

VARIABLES
    ideas,          \* useState<Idea[]>: the in-memory collection
    hasHydratedRef, \* hasHydratedRef.current
    isMountedRef,   \* isMountedRef.current
    loadPc,         \* position of loadIdeas: "awaiting" (getItem), "done"
    writes,         \* payloads of the setItem calls in flight, in call order
    slot,           \* content of the durable slot STORAGE_KEY
    opCount,        \* number of store operations called so far
    unsaved,        \* an operation was called and no write was issued since
    lastOp,         \* the call that ended last: a store operation with its
                    \* id, or a setItem that was fulfilled or rejected
    lastArgs,       \* what that call was passed, for addIdea and updateIdea
    inbox,          \* the inbox screen: its filter state and memoized lists
    capture,        \* the capture screen: the state of its form
    detail,         \* the detail screen: the note it shows, its edit state
                    \* and whether its "Discard changes?" alert is up
    uiEvent         \* the handler that ran last, when it was submitIdea,
                    \* Save, the beforeRemove listener or a button of the
                    \* alert

\* the state of the screens
uiVars == <<inbox, capture, detail, uiEvent>>

vars == <<ideas, hasHydratedRef, isMountedRef, loadPc, writes, slot,
          opCount, unsaved, lastOp, lastArgs, inbox, capture, detail,
          uiEvent>>

----------------------------------------------------------------------------
(* Bounds and input sets *)

MaxOps == 2

JsTrue == "true"
JsFalse == "false"
Undefined == "undefined"

IdeaCategory == {"App", "Content", "Random"}

\* what one call of addIdea draws: Date.now() for the id, the hex digits of
\* Math.random(), and Date.now() for createdAt (the same millisecond, or a
\* later one)
Draws ==
    { [t1 |-> 100, r |-> "a3f", t2 |-> 100],
      [t1 |-> 100, r |-> "c71", t2 |-> 200],
      [t1 |-> 200, r |-> "a3f", t2 |-> 200] }

\* what the callers of addIdea pass
AddInputs ==
    { [text |-> "buy milk", category |-> "Random"],
      [text |-> "ship v1", category |-> "App"] }

NoId == <<0, "none">>
UnknownId == <<0, "unknown">>

FlagKeys == {"isPinned", "isArchived"}

Idea(id, text, category, isPinned, isArchived, createdAt) ==
    [id |-> id, text |-> text, category |-> category,
     isPinned |-> isPinned, isArchived |-> isArchived, createdAt |-> createdAt]

\* an entry written by the earlier schema revision: no flag, isOutside
LegacyIdea ==
    [id |-> <<100, "e01">>, text |-> "buy milk", category |-> "Content",
     isOutside |-> JsTrue, createdAt |-> 100]

\* an entry written while its isArchived held undefined
StoredPinned ==
    [id |-> <<200, "e02">>, text |-> "ship v1", category |-> "App",
     isPinned |-> JsTrue, createdAt |-> 200]

StoredBoth == Idea(<<200, "e03">>, "ship v1", "App", JsTrue, JsTrue, 200)

Slot(kind, items) == [kind |-> kind, items |-> items]

AbsentSlot == Slot("absent", <<>>)

\* contents of the slot in which no entry is both pinned and archived
ExclusiveSlots ==
    { AbsentSlot, Slot("unreadable", <<>>), Slot("corrupt", <<>>),
      Slot("nonseq", <<>>), Slot("array", <<LegacyIdea, StoredPinned>>) }

InitSlots == ExclusiveSlots \cup { Slot("array", <<StoredBoth>>) }

\* what the callers of updateIdea pass as `updates`
UpdateInputs ==
    { [isPinned |-> JsTrue, isArchived |-> JsTrue],
      [isPinned |-> JsTrue],
      [id |-> UnknownId, createdAt |-> 999, text |-> "ship v1",
       category |-> "Content"],
      [isArchived |-> Undefined] }

----------------------------------------------------------------------------
(* JavaScript helpers *)

\* obj.key for a flag key: undefined when the object has no such key
Get(obj, key) == IF key \in DOMAIN obj THEN obj[key] ELSE Undefined

\* v ?? d
Nullish(v, d) == IF v = Undefined THEN d ELSE v

\* !v for a value that is a boolean or undefined
Not(v) == IF v = JsTrue THEN JsFalse ELSE JsTrue

Ids(s) == { s[i].id : i \in DOMAIN s }

Op(name, id) == [op |-> name, id |-> id]

\* the arguments of a call that takes none besides an id
NoArgs == [none |-> TRUE]

\* the arguments of addIdea, with the time its createdAt read
AddArgs(input, now) ==
    [text |-> input.text, category |-> input.category, now |-> now]

\* the inbox screen is not on display
NoInbox == [open |-> FALSE]

\* the capture screen is not on display
NoCapture == [open |-> FALSE]

\* the detail screen is not on the stack
NoDetail == [open |-> FALSE]

\* the handler that ran last is none of those that uiEvent names
NoEvent == "none"

----------------------------------------------------------------------------
(* Serialization: JSON.stringify(ideas) and JSON.parse(data) *)

\* as StringifyIdea, with a replacer array that lists the keys of the
\* first schema only: JSON.stringify(ideas, ["id", "text", ...])
StringifyIdeaListedKeys(idea) ==
    LET kept == DOMAIN idea \cap {"id", "text", "category", "createdAt"}
    IN  [k \in kept |-> idea[k]]

\* JSON.stringify of one object drops every key that holds undefined
StringifyIdea(idea) ==
    LET kept == { k \in DOMAIN idea : ~(k \in FlagKeys /\ idea[k] = Undefined) }
    IN  [k \in kept |-> idea[k]]

\* JSON.stringify(ideas): the text of an array, in the order of `ideas`
Stringify(s) == Slot("array", [i \in DOMAIN s |-> StringifyIdea(s[i])])

\* as NormalizeIdea, but writing false over a flag that is present
NormalizeIdeaResetsFlags(idea) ==
    [k \in DOMAIN idea \cup FlagKeys |->
        IF k \in FlagKeys THEN JsFalse ELSE idea[k]]

\* hydration's normalization of one parsed entry
NormalizeIdea(idea) ==
    [k \in DOMAIN idea \cup FlagKeys |->
        IF k \in FlagKeys THEN Nullish(Get(idea, k), JsFalse) ELSE idea[k]]

Normalize(parsed) == [i \in DOMAIN parsed |-> NormalizeIdea(parsed[i])]

----------------------------------------------------------------------------
(* The setIdeas updaters of the store operations *)

NewIdea(input, t1, r, t2) ==
    Idea(<<t1, r>>, input.text, input.category, JsFalse, JsFalse, t2)

Added(prev, newIdea) == Append(prev, newIdea)

\* as Removed, but by position: splice(findIndex(...), 1), which drops the
\* last entry when findIndex gives -1
RemovedBySplice(prev, id) ==
    LET found == { i \in DOMAIN prev : prev[i].id = id }
        at == IF found = {} THEN Len(prev)
              ELSE CHOOSE i \in found : \A j \in found : i <= j
    IN  SubSeq(prev, 1, at - 1) \o SubSeq(prev, at + 1, Len(prev))

\* as Removed, with the test of the filter inverted: idea.id === id
RemovedKeepsMatch(prev, id) ==
    LET Keep(idea) == idea.id = id IN SelectSeq(prev, Keep)

Removed(prev, id) ==
    LET Keep(idea) == idea.id # id IN SelectSeq(prev, Keep)

\* as MergedIdea, without the two lines that restore id and createdAt
MergedIdeaUnprotected(idea, updates) ==
    [k \in DOMAIN idea \cup DOMAIN updates |->
        IF k \in DOMAIN updates THEN updates[k] ELSE idea[k]]

\* as MergedIdea, but enforcing the exclusion as the toggles do: a flag
\* that `updates` sets to true clears the other flag
MergedIdeaExclusive(idea, updates) ==
    [k \in DOMAIN idea \cup DOMAIN updates |->
        IF k \in {"id", "createdAt"} THEN idea[k]
        ELSE IF k = "isArchived" /\ Get(updates, "isPinned") = JsTrue
             THEN JsFalse
        ELSE IF k = "isPinned" /\ Get(updates, "isArchived") = JsTrue
                /\ Get(updates, "isPinned") # JsTrue
             THEN JsFalse
        ELSE IF k \in DOMAIN updates THEN updates[k]
        ELSE idea[k]]

\* { ...idea, ...updates, id: idea.id, createdAt: idea.createdAt }
MergedIdea(idea, updates) ==
    [k \in DOMAIN idea \cup DOMAIN updates |->
        IF k \in {"id", "createdAt"} THEN idea[k]
        ELSE IF k \in DOMAIN updates THEN updates[k]
        ELSE idea[k]]

Updated(prev, id, updates) ==
    [i \in DOMAIN prev |->
        IF prev[i].id = id THEN MergedIdea(prev[i], updates) ELSE prev[i]]

\* as PinToggledIdea, but clearing isArchived when unpinning too
PinToggledIdeaClearsArchive(idea) ==
    LET newPinnedState == Not(Nullish(Get(idea, "isPinned"), JsFalse))
    IN  [k \in DOMAIN idea \cup FlagKeys |->
            IF k = "isPinned" THEN newPinnedState
            ELSE IF k = "isArchived" THEN JsFalse
            ELSE idea[k]]

\* as PinToggledIdea, but setting isPinned instead of flipping it
PinToggledIdeaAlwaysPins(idea) ==
    LET newPinnedState == JsTrue
    IN  [k \in DOMAIN idea \cup FlagKeys |->
            IF k = "isPinned" THEN newPinnedState
            ELSE IF k = "isArchived"
                 THEN (IF newPinnedState = JsTrue THEN JsFalse
                       ELSE Get(idea, "isArchived"))
            ELSE idea[k]]

PinToggledIdea(idea) ==
    LET newPinnedState == Not(Nullish(Get(idea, "isPinned"), JsFalse))
    IN  [k \in DOMAIN idea \cup FlagKeys |->
            IF k = "isPinned" THEN newPinnedState
            ELSE IF k = "isArchived"
                 THEN (IF newPinnedState = JsTrue THEN JsFalse
                       ELSE Get(idea, "isArchived"))
            ELSE idea[k]]

\* as PinToggled, without the test of the id: every entry is toggled
PinToggledEveryIdea(prev, id) ==
    [i \in DOMAIN prev |-> PinToggledIdea(prev[i])]

PinToggled(prev, id) ==
    [i \in DOMAIN prev |->
        IF prev[i].id = id THEN PinToggledIdea(prev[i]) ELSE prev[i]]

\* as ArchiveToggledIdea, but archiving leaves isPinned as it was
ArchiveToggledIdeaKeepsPin(idea) ==
    LET newArchivedState == Not(Nullish(Get(idea, "isArchived"), JsFalse))
    IN  [k \in DOMAIN idea \cup FlagKeys |->
            IF k = "isArchived" THEN newArchivedState
            ELSE IF k = "isPinned" THEN Get(idea, "isPinned")
            ELSE idea[k]]

ArchiveToggledIdea(idea) ==
    LET newArchivedState == Not(Nullish(Get(idea, "isArchived"), JsFalse))
    IN  [k \in DOMAIN idea \cup FlagKeys |->
            IF k = "isArchived" THEN newArchivedState
            ELSE IF k = "isPinned"
                 THEN (IF newArchivedState = JsTrue THEN JsFalse
                       ELSE Get(idea, "isPinned"))
            ELSE idea[k]]

ArchiveToggled(prev, id) ==
    [i \in DOMAIN prev |->
        IF prev[i].id = id THEN ArchiveToggledIdea(prev[i]) ELSE prev[i]]

----------------------------------------------------------------------------
(* Initial state: the provider is mounted, both effects have run once: the *)
(* hydration effect called loadIdeas, which waits for getItem, and the     *)
(* autosave effect returned early because hasHydratedRef was false.        *)

InitWith(slots) ==
    /\ ideas = <<>>
    /\ hasHydratedRef = FALSE
    /\ isMountedRef = TRUE
    /\ loadPc = "awaiting"
    /\ writes = <<>>
    /\ slot \in slots
    /\ opCount = 0
    /\ unsaved = FALSE
    /\ lastOp = Op("mount", NoId)
    /\ lastArgs = NoArgs
    /\ inbox = NoInbox
    /\ capture = NoCapture
    /\ detail = NoDetail
    /\ uiEvent = NoEvent

Init == InitWith(InitSlots)

\* the ids a caller can pass: those of the collection and one no idea has
CallIds == Ids(ideas) \cup {UnknownId}

\* as Autosaved, without the early return on hasHydratedRef
AutosavedNoGuard(inFlight, hydrated, current) ==
    Append(inFlight, Stringify(current))

\* the [ideas] effect, run after the render that shows `current`: the
\* writes in flight after it.  It returns early while hasHydratedRef is
\* false, and calls saveIdeas, which issues setItem, otherwise.
Autosaved(inFlight, hydrated, current) ==
    IF ~hydrated THEN inFlight ELSE Append(inFlight, Stringify(current))

\* a store operation is called from a mounted tree: setIdeas queues the
\* updater, the provider renders with the new collection and the [ideas]
\* effect runs
StoreCalled(name, id, next) ==
    /\ isMountedRef
    /\ opCount < MaxOps
    /\ ideas' = next
    /\ writes' = Autosaved(writes, hasHydratedRef, next)
    /\ unsaved' = (writes' = writes)
    /\ opCount' = opCount + 1
    /\ lastOp' = Op(name, id)
    /\ UNCHANGED <<hasHydratedRef, isMountedRef, loadPc, slot>>

\* a store operation is called by a caller that is not one of the screens
Called(name, id, next) ==
    /\ StoreCalled(name, id, next)
    /\ UNCHANGED uiVars

AddIdea ==
    \E input \in AddInputs, d \in Draws :
        /\ Called("addIdea", <<d.t1, d.r>>,
                  Added(ideas, NewIdea(input, d.t1, d.r, d.t2)))
        /\ lastArgs' = AddArgs(input, d.t2)

RemoveIdea ==
    \E id \in CallIds :
        /\ Called("removeIdea", id, Removed(ideas, id))
        /\ lastArgs' = NoArgs

\* as ClearIdeas, with an updater that spares the pinned ideas
ClearIdeasKeepsPinned ==
    LET Keep(idea) == Get(idea, "isPinned") = JsTrue
    IN  /\ Called("clearIdeas", NoId, SelectSeq(ideas, Keep))
        /\ lastArgs' = NoArgs

ClearIdeas ==
    /\ Called("clearIdeas", NoId, <<>>)
    /\ lastArgs' = NoArgs

UpdateIdea ==
    \E id \in CallIds, updates \in UpdateInputs :
        /\ Called("updateIdea", id, Updated(ideas, id, updates))
        /\ lastArgs' = updates

TogglePinned ==
    \E id \in CallIds :
        /\ Called("togglePinned", id, PinToggled(ideas, id))
        /\ lastArgs' = NoArgs

ToggleArchived ==
    \E id \in CallIds :
        /\ Called("toggleArchived", id, ArchiveToggled(ideas, id))
        /\ lastArgs' = NoArgs

----------------------------------------------------------------------------
(* Hydration: loadIdeas *)

\* as LoadResume, with hasHydratedRef set at the end of the try block
\* instead of in finally
LoadResumeNoFinally ==
    /\ loadPc = "awaiting"
    /\ loadPc' = "done"
    /\ hasHydratedRef' = (slot.kind \notin {"unreadable", "corrupt"})
    /\ IF slot.kind = "array" /\ isMountedRef
       THEN /\ ideas' = Normalize(slot.items)
            /\ writes' = Autosaved(writes, hasHydratedRef', ideas')
            /\ unsaved' = FALSE
       ELSE UNCHANGED <<ideas, writes, unsaved>>
    /\ UNCHANGED <<isMountedRef, slot, opCount, lastOp, lastArgs>>
    /\ UNCHANGED uiVars

\* getItem settles and loadIdeas runs to its end: try, catch and finally;
\* when it called setIdeas, the provider renders and the [ideas] effect
\* runs.  No setItem is issued before this step, so the content that
\* getItem read is the content of the slot now.
LoadResume ==
    /\ loadPc = "awaiting"
    /\ loadPc' = "done"
    /\ hasHydratedRef' = TRUE
    /\ IF slot.kind = "array" /\ isMountedRef
       THEN /\ ideas' = Normalize(slot.items)
            /\ writes' = Autosaved(writes, hasHydratedRef', ideas')
            /\ unsaved' = FALSE
       ELSE UNCHANGED <<ideas, writes, unsaved>>
    /\ UNCHANGED <<isMountedRef, slot, opCount, lastOp, lastArgs>>
    /\ UNCHANGED uiVars

\* cleanup of the hydration effect when the provider is unmounted.  Only
\* loadIdeas reads isMountedRef, and an unmounted provider renders no more
\* and takes no call, so the unmount is followed while loadIdeas is running.
Unmount ==
    /\ isMountedRef
    /\ loadPc # "done"
    /\ isMountedRef' = FALSE
    /\ UNCHANGED <<ideas, hasHydratedRef, loadPc, writes, slot, opCount,
                   unsaved, lastOp, lastArgs>>
    /\ UNCHANGED uiVars

----------------------------------------------------------------------------
(* saveIdeas: the setItem calls in flight settle, in any order *)

\* s without its i-th element
DropAt(s, i) == SubSeq(s, 1, i - 1) \o SubSeq(s, i + 1, Len(s))

\* a setItem in flight is fulfilled: the slot now holds its payload
WriteOk ==
    \E i \in DOMAIN writes :
        /\ slot' = writes[i]
        /\ writes' = DropAt(writes, i)
        /\ lastOp' = Op("setItemOk", NoId)
        /\ lastArgs' = NoArgs
        /\ UNCHANGED <<ideas, hasHydratedRef, isMountedRef, loadPc, opCount,
                       unsaved>>
        /\ UNCHANGED uiVars

\* as WriteFail, with a catch block that calls saveIdeas again
WriteFailRetries ==
    \E i \in DOMAIN writes :
        /\ writes' = Append(DropAt(writes, i), writes[i])
        /\ lastOp' = Op("setItemFailed", NoId)
        /\ lastArgs' = NoArgs
        /\ UNCHANGED <<ideas, hasHydratedRef, isMountedRef, loadPc, slot,
                       opCount, unsaved>>
        /\ UNCHANGED uiVars

\* a setItem in flight is rejected: saveIdeas catches and logs
WriteFail ==
    \E i \in DOMAIN writes :
        /\ writes' = DropAt(writes, i)
        /\ lastOp' = Op("setItemFailed", NoId)
        /\ lastArgs' = NoArgs
        /\ UNCHANGED <<ideas, hasHydratedRef, isMountedRef, loadPc, slot,
                       opCount, unsaved>>
        /\ UNCHANGED uiVars

Next ==
    \/ AddIdea
    \/ RemoveIdea
    \/ ClearIdeas
    \/ UpdateIdea
    \/ TogglePinned
    \/ ToggleArchived
    \/ LoadResume
    \/ Unmount
    \/ WriteOk
    \/ WriteFail

Spec == Init /\ [][Next]_vars

\* the store when getItem is settled at some time, fulfilled or rejected
SpecLoads == Init /\ [][Next]_vars /\ WF_vars(LoadResume)

NextAllWritesOk ==
    \/ AddIdea
    \/ RemoveIdea
    \/ ClearIdeas
    \/ UpdateIdea
    \/ TogglePinned
    \/ ToggleArchived
    \/ LoadResume
    \/ Unmount
    \/ WriteOk

\* the store when no setItem is rejected
SpecAllWritesOk == Init /\ [][NextAllWritesOk]_vars

\* the store without updateIdea, started on a slot in which no entry is
\* both pinned and archived
InitNoUpdate == InitWith(ExclusiveSlots)

NextNoUpdate ==
    \/ AddIdea
    \/ RemoveIdea
    \/ ClearIdeas
    \/ TogglePinned
    \/ ToggleArchived
    \/ LoadResume
    \/ Unmount
    \/ WriteOk
    \/ WriteFail

SpecNoUpdate == InitNoUpdate /\ [][NextNoUpdate]_vars

----------------------------------------------------------------------------
(* The inbox screen (app/(tabs)/explore.tsx).  A text is the sequence of   *)
(* its characters, so that trim, toLowerCase, replace and includes are      *)
(* computed on it.                                                          *)

\* the longest collection the inbox is opened on
MaxInbox == 3

\* "please buy milk today"
TextPleaseBuy ==
    <<"p", "l", "e", "a", "s", "e", " ", "b", "u", "y", " ", "m", "i",
      "l", "k", " ", "t", "o", "d", "a", "y">>

\* "Buy", a tab, a space, "MILK"
TextBuyMilkTab ==
    <<"B", "u", "y", "\t", " ", "M", "I", "L", "K">>

\* "milkshake"
TextMilkshake ==
    <<"m", "i", "l", "k", "s", "h", "a", "k", "e">>

\* "ship v1"
TextShip ==
    <<"s", "h", "i", "p", " ", "v", "1">>

\* "buy milk"
TextBuyMilk ==
    <<"b", "u", "y", " ", "m", "i", "l", "k">>

\* two spaces
QueryBlank ==
    <<" ", " ">>

\* "Buy  milk", with two spaces
QueryBuyMilk ==
    <<"B", "u", "y", " ", " ", "m", "i", "l", "k">>

\* " MILK "
QueryMilk ==
    <<" ", "M", "I", "L", "K", " ">>

\* the characters that \s matches and trim removes, among those in use
Whitespace == {" ", "\t", "\n"}

UpperCase ==
    <<"A", "B", "C", "D", "E", "F", "G", "H", "I", "J", "K", "L", "M",
      "N", "O", "P", "Q", "R", "S", "T", "U", "V", "W", "X", "Y", "Z">>

LowerCase ==
    <<"a", "b", "c", "d", "e", "f", "g", "h", "i", "j", "k", "l", "m",
      "n", "o", "p", "q", "r", "s", "t", "u", "v", "w", "x", "y", "z">>

\* String.prototype.toLowerCase
ToLowerCase(s) ==
    [i \in DOMAIN s |->
        IF \E n \in DOMAIN UpperCase : UpperCase[n] = s[i]
        THEN LowerCase[CHOOSE n \in DOMAIN UpperCase : UpperCase[n] = s[i]]
        ELSE s[i]]

\* String.prototype.trim
Trim(s) ==
    LET solid == { i \in DOMAIN s : s[i] \notin Whitespace }
    IN  IF solid = {} THEN <<>>
        ELSE SubSeq(s, CHOOSE i \in solid : \A j \in solid : i <= j,
                       CHOOSE i \in solid : \A j \in solid : j <= i)

\* s.replace(/\s+/g, ' '): every maximal run of whitespace becomes one space
CollapseWhitespace(s) ==
    LET Starts(i) == s[i] \notin Whitespace \/ i = 1 \/ s[i - 1] \notin Whitespace
        kept == SelectSeq([i \in DOMAIN s |-> i], Starts)
    IN  [j \in DOMAIN kept |->
            IF s[kept[j]] \in Whitespace THEN " " ELSE s[kept[j]]]

\* text.includes(part)
Includes(text, part) ==
    \E at \in 0..(Len(text) - Len(part)) :
        SubSeq(text, at + 1, at + Len(part)) = part

\* the entries the slot holds when the inbox is opened: written by this
\* revision with both flags, or by the earlier one with none
InboxStored ==
    { Idea(<<100, "b01">>, TextPleaseBuy, "Random", JsFalse, JsFalse, 100),
      Idea(<<100, "b02">>, TextBuyMilkTab, "App", JsTrue, JsFalse, 100),
      [id |-> <<200, "b03">>, text |-> TextMilkshake, category |-> "Content",
       isOutside |-> JsFalse, createdAt |-> 200],
      Idea(<<200, "b04">>, TextShip, "App", JsFalse, JsTrue, 200),
      Idea(<<100, "b05">>, TextBuyMilk, "Random", JsTrue, JsTrue, 100) }

\* the arrays of at most MaxInbox stored entries, each at most once
InboxSlots ==
    { Slot("array", items) :
        items \in { s \in UNION { [1..n -> InboxStored] : n \in 0..MaxInbox } :
                      \A i, j \in DOMAIN s : i # j => s[i] # s[j] } }

\* what the user types in the search field
Queries == { <<>>, QueryBlank, QueryBuyMilk, QueryMilk }

CategoryChoices == IdeaCategory \cup {"All"}

SortOrders == {"newest", "oldest"}

\* as ArchiveFiltered, without the filter of the else branch: the normal
\* view shows every idea
ArchiveFilteredNormalShowsAll(items, showArchived) ==
    LET InArchive(item) == Get(item, "isArchived") = JsTrue
    IN  IF showArchived THEN SelectSeq(items, InArchive)
        ELSE items

\* the first filter of visibleIdeas: the archived view or the normal view
ArchiveFiltered(items, showArchived) ==
    LET InArchive(item) == Get(item, "isArchived") = JsTrue
        InNormal(item) == Get(item, "isArchived") # JsTrue
    IN  IF showArchived THEN SelectSeq(items, InArchive)
        ELSE SelectSeq(items, InNormal)

\* as SearchFiltered, comparing the text of an idea lowercased only, its
\* whitespace left as it is
SearchFilteredTextAsIs(items, searchQuery) ==
    IF Trim(searchQuery) # <<>>
    THEN LET normalizedQuery ==
                 CollapseWhitespace(ToLowerCase(Trim(searchQuery)))
             Matches(item) ==
                 Includes(ToLowerCase(item.text), normalizedQuery)
         IN  SelectSeq(items, Matches)
    ELSE items

\* the text search of visibleIdeas
SearchFiltered(items, searchQuery) ==
    IF Trim(searchQuery) # <<>>
    THEN LET normalizedQuery ==
                 CollapseWhitespace(ToLowerCase(Trim(searchQuery)))
             Matches(item) ==
                 LET normalizedText == CollapseWhitespace(ToLowerCase(item.text))
                 IN  Includes(normalizedText, normalizedQuery)
         IN  SelectSeq(items, Matches)
    ELSE items

\* the category filter of visibleIdeas
CategoryFiltered(items, selectedCategory) ==
    LET InCategory(item) == item.category = selectedCategory
    IN  IF selectedCategory # "All" THEN SelectSeq(items, InCategory)
        ELSE items

\* the comparator that visibleIdeas passes to sort
Compare(a, b, sortOrder) ==
    IF sortOrder = "newest" THEN b.createdAt - a.createdAt
    ELSE a.createdAt - b.createdAt

\* as Inserted, but putting x in front of its ties: a sort that is not
\* stable
InsertedBeforeTies(s, x, sortOrder) ==
    LET before == { i \in DOMAIN s : Compare(s[i], x, sortOrder) < 0 }
        at == Cardinality(before)
    IN  SubSeq(s, 1, at) \o <<x>> \o SubSeq(s, at + 1, Len(s))

\* x put into the sorted `s`: after every element that does not come after
\* it, so behind its ties
Inserted(s, x, sortOrder) ==
    LET before == { i \in DOMAIN s : Compare(s[i], x, sortOrder) <= 0 }
        at == Cardinality(before)
    IN  SubSeq(s, 1, at) \o <<x>> \o SubSeq(s, at + 1, Len(s))

\* [...items].sort(comparator): Array.prototype.sort, which is stable
RECURSIVE Sorted(_, _)
Sorted(items, sortOrder) ==
    IF items = <<>> THEN <<>>
    ELSE Inserted(Sorted(SubSeq(items, 1, Len(items) - 1), sortOrder),
                  items[Len(items)], sortOrder)

\* as VisibleIdeas, with a category filter that starts again from the
\* whole collection: filtered = ideas.filter(...)
VisibleIdeasCategoryFromAll(items, showArchived, searchQuery, selectedCategory, sortOrder) ==
    Sorted(IF selectedCategory # "All"
           THEN CategoryFiltered(items, selectedCategory)
           ELSE SearchFiltered(ArchiveFiltered(items, showArchived),
                               searchQuery),
           sortOrder)

\* the useMemo that computes visibleIdeas
VisibleIdeas(items, showArchived, searchQuery, selectedCategory, sortOrder) ==
    Sorted(CategoryFiltered(SearchFiltered(ArchiveFiltered(items, showArchived),
                                           searchQuery),
                            selectedCategory),
           sortOrder)

\* as PinnedIdeas, without the early return for the archived view
PinnedIdeasInEveryView(visible, showArchived) ==
    LET Pinned(item) == Get(item, "isPinned") = JsTrue
    IN  SelectSeq(visible, Pinned)

\* the useMemo that splits visibleIdeas: the pinned section
PinnedIdeas(visible, showArchived) ==
    LET Pinned(item) == Get(item, "isPinned") = JsTrue
    IN  IF showArchived THEN <<>> ELSE SelectSeq(visible, Pinned)

\* as RegularIdeas, without the early return for the archived view
RegularIdeasSplitInEveryView(visible, showArchived) ==
    LET Regular(item) == Get(item, "isPinned") # JsTrue
    IN  SelectSeq(visible, Regular)

\* the useMemo that splits visibleIdeas: the data of the list
RegularIdeas(visible, showArchived) ==
    LET Regular(item) == Get(item, "isPinned") # JsTrue
    IN  IF showArchived THEN visible ELSE SelectSeq(visible, Regular)

\* the inbox screen rendered on `items` with its four pieces of state
Rendered(items, searchQuery, selectedCategory, sortOrder, showArchived) ==
    LET visible == VisibleIdeas(items, showArchived, searchQuery,
                                selectedCategory, sortOrder)
    IN  [open |-> TRUE,
         searchQuery |-> searchQuery,
         selectedCategory |-> selectedCategory,
         sortOrder |-> sortOrder,
         showArchived |-> showArchived,
         visibleIdeas |-> visible,
         pinnedIdeas |-> PinnedIdeas(visible, showArchived),
         regularIdeas |-> RegularIdeas(visible, showArchived)]

\* the variables of the store
storeVars == <<ideas, hasHydratedRef, isMountedRef, loadPc, writes, slot,
               opCount, unsaved, lastOp, lastArgs>>

\* the app was started on a stored array, hydration is done, its write has
\* settled and the inbox is shown for the first time
InitInbox ==
    /\ slot \in InboxSlots
    /\ ideas = Normalize(slot.items)
    /\ hasHydratedRef = TRUE
    /\ isMountedRef = TRUE
    /\ loadPc = "done"
    /\ writes = <<>>
    /\ opCount = 0
    /\ unsaved = FALSE
    /\ lastOp = Op("setItemOk", NoId)
    /\ lastArgs = NoArgs
    /\ inbox = Rendered(ideas, <<>>, "All", "newest", FALSE)
    /\ capture = NoCapture
    /\ detail = NoDetail
    /\ uiEvent = NoEvent

\* onChangeText of the search field, and its clear button
SetSearchQuery ==
    \E text \in Queries :
        /\ inbox' = Rendered(ideas, text, inbox.selectedCategory,
                             inbox.sortOrder, inbox.showArchived)
        /\ UNCHANGED <<storeVars, capture, detail, uiEvent>>

\* a category chip is pressed
SetSelectedCategory ==
    \E category \in CategoryChoices :
        /\ inbox' = Rendered(ideas, inbox.searchQuery, category,
                             inbox.sortOrder, inbox.showArchived)
        /\ UNCHANGED <<storeVars, capture, detail, uiEvent>>

\* a sort chip is pressed
SetSortOrder ==
    \E order \in SortOrders :
        /\ inbox' = Rendered(ideas, inbox.searchQuery, inbox.selectedCategory,
                             order, inbox.showArchived)
        /\ UNCHANGED <<storeVars, capture, detail, uiEvent>>

\* the archive switch is pressed: setShowArchived((v) => !v)
ToggleShowArchived ==
    /\ inbox' = Rendered(ideas, inbox.searchQuery, inbox.selectedCategory,
                         inbox.sortOrder, ~inbox.showArchived)
    /\ UNCHANGED <<storeVars, capture, detail, uiEvent>>

\* "Clear filters" of the empty state, shown in the normal view when the
\* collection has ideas and none is visible
ResetFilters ==
    /\ ideas # <<>>
    /\ inbox.visibleIdeas = <<>>
    /\ ~inbox.showArchived
    /\ inbox' = Rendered(ideas, <<>>, "All", "newest", inbox.showArchived)
    /\ UNCHANGED <<storeVars, capture, detail, uiEvent>>

NextInbox ==
    \/ SetSearchQuery
    \/ SetSelectedCategory
    \/ SetSortOrder
    \/ ToggleShowArchived
    \/ ResetFilters

SpecInbox == InitInbox /\ [][NextInbox]_vars

----------------------------------------------------------------------------
(* The capture screen (HomeScreen, src/unnamed/part_002), the item actions *)
(* of the inbox and the detail screen (NoteDetailScreen,                    *)
(* src/unnamed/part_000).  The detail screen is pushed on the stack over    *)
(* the tabs, so the tabs take no input while it is open, and its alert is   *)
(* modal, so the detail screen takes none while the alert is up.            *)

\* " buy milk ", with a space at each end
TextBuyMilkPadded ==
    <<" ", "b", "u", "y", " ", "m", "i", "l", "k", " ">>

\* what the user types in the capture field
CaptureTexts == { QueryBlank, TextBuyMilkPadded, TextShip }

\* the form of the capture screen.  Its third piece of state, isOutside,
\* is left out: submitIdea passes it to addIdea, which does not read it.
CaptureForm(ideaText, selectedCategory) ==
    [open |-> TRUE, ideaText |-> ideaText,
     selectedCategory |-> selectedCategory]

\* the useState initial values of HomeScreen
InitialCapture == CaptureForm(<<>>, "Random")

\* what addIdea draws when it is called from the capture form: the clock
\* has moved on since the submit before
UiDraws == { [t1 |-> 100 * (opCount + 1), r |-> "a3f",
              t2 |-> 100 * (opCount + 1)] }

CanSubmit(form) == Len(Trim(form.ideaText)) > 0

\* no screen but the capture and the inbox tabs takes input
TabsActive == capture.open /\ ~detail.open

\* onChangeText of the capture field
SetIdeaText ==
    \E text \in CaptureTexts :
        /\ TabsActive
        /\ capture' = [capture EXCEPT !.ideaText = text]
        /\ uiEvent' = NoEvent
        /\ UNCHANGED <<storeVars, inbox, detail>>

\* a category chip of the capture form is pressed
SetCaptureCategory ==
    \E category \in IdeaCategory :
        /\ TabsActive
        /\ capture' = [capture EXCEPT !.selectedCategory = category]
        /\ uiEvent' = NoEvent
        /\ UNCHANGED <<storeVars, inbox, detail>>

\* as SubmitIdea, passing the text as it was typed
SubmitIdeaUntrimmed ==
    /\ TabsActive
    /\ uiEvent' = "submitIdea"
    /\ IF ~CanSubmit(capture)
       THEN UNCHANGED <<storeVars, inbox, capture, detail>>
       ELSE \E d \in UiDraws :
              LET input == [text |-> capture.ideaText,
                            category |-> capture.selectedCategory]
              IN  /\ StoreCalled("addIdea", <<d.t1, d.r>>,
                                 Added(ideas, NewIdea(input, d.t1, d.r, d.t2)))
                  /\ lastArgs' = AddArgs(input, d.t2)
                  /\ capture' = InitialCapture
                  /\ UNCHANGED <<inbox, detail>>

\* submitIdea: returns when the text is blank, and calls addIdea with the
\* trimmed text and resets the form otherwise
SubmitIdea ==
    /\ TabsActive
    /\ uiEvent' = "submitIdea"
    /\ IF ~CanSubmit(capture)
       THEN UNCHANGED <<storeVars, inbox, capture, detail>>
       ELSE \E d \in UiDraws :
              LET input == [text |-> Trim(capture.ideaText),
                            category |-> capture.selectedCategory]
              IN  /\ StoreCalled("addIdea", <<d.t1, d.r>>,
                                 Added(ideas, NewIdea(input, d.t1, d.r, d.t2)))
                  /\ lastArgs' = AddArgs(input, d.t2)
                  /\ capture' = InitialCapture
                  /\ UNCHANGED <<inbox, detail>>

\* the pin button of an item of the inbox
InboxTogglePinned ==
    \E id \in Ids(ideas) :
        /\ TabsActive
        /\ StoreCalled("togglePinned", id, PinToggled(ideas, id))
        /\ lastArgs' = NoArgs
        /\ uiEvent' = NoEvent
        /\ UNCHANGED <<inbox, capture, detail>>

\* the archive button of an item of the inbox
InboxToggleArchived ==
    \E id \in Ids(ideas) :
        /\ TabsActive
        /\ StoreCalled("toggleArchived", id, ArchiveToggled(ideas, id))
        /\ lastArgs' = NoArgs
        /\ uiEvent' = NoEvent
        /\ UNCHANGED <<inbox, capture, detail>>

\* the delete button of an item of the inbox
InboxRemoveIdea ==
    \E id \in Ids(ideas) :
        /\ TabsActive
        /\ StoreCalled("removeIdea", id, Removed(ideas, id))
        /\ lastArgs' = NoArgs
        /\ uiEvent' = NoEvent
        /\ UNCHANGED <<inbox, capture, detail>>

\* ideas.find((i) => i.id === id): the first idea with the id, if any
Found(items, id) ==
    LET at == { i \in DOMAIN items : items[i].id = id }
    IN  IF at = {} THEN <<>>
        ELSE <<items[CHOOSE i \in at : \A j \in at : i <= j]>>

\* the idea the detail screen shows in `items`, as a sequence of at most one
DetailIdea(items) == Found(items, detail.id)

Detail(id, isEditing, draftText, originalText, alert) ==
    [open |-> TRUE, id |-> id, isEditing |-> isEditing,
     draftText |-> draftText, originalText |-> originalText, alert |-> alert]

TrimmedDraft(d) == Trim(d.draftText)

IsDirty(d) == TrimmedDraft(d) # d.originalText

CanSave(d) == IsDirty(d) /\ Len(TrimmedDraft(d)) > 0

\* the sync effect, run after a render of the detail screen on `items`:
\* while not editing, the draft and the original follow the text of the idea
Synced(d, items) ==
    LET found == Found(items, d.id)
    IN  IF ~d.isEditing /\ found # <<>>
        THEN [d EXCEPT !.draftText = found[1].text,
                       !.originalText = found[1].text]
        ELSE d

\* an item of the inbox is pressed: the detail screen is pushed and mounts
OpenDetail ==
    \E id \in Ids(ideas) :
        /\ TabsActive
        /\ detail' = LET text == Found(ideas, id)[1].text
                     IN  Detail(id, FALSE, text, text, FALSE)
        /\ uiEvent' = NoEvent
        /\ UNCHANGED <<storeVars, inbox, capture>>

\* the detail screen takes input: it shows an idea and no alert is up
DetailActive == detail.open /\ ~detail.alert /\ DetailIdea(ideas) # <<>>

\* the Edit button, shown while not editing
PressEdit ==
    /\ DetailActive
    /\ ~detail.isEditing
    /\ detail' = LET text == DetailIdea(ideas)[1].text
                 IN  [detail EXCEPT !.originalText = text, !.draftText = text,
                                    !.isEditing = TRUE]
    /\ uiEvent' = NoEvent
    /\ UNCHANGED <<storeVars, inbox, capture>>

\* what the user makes of the draft: nothing left, blanks only, a space
\* added at the end of the original, or another text with blanks around it
DraftTexts(d) ==
    { <<>>, QueryBlank, d.originalText \o <<" ">>, TextBuyMilkPadded }

\* onChangeText of the edit field
ChangeDraft ==
    /\ DetailActive
    /\ detail.isEditing
    /\ \E text \in DraftTexts(detail) :
          /\ detail' = [detail EXCEPT !.draftText = text]
          /\ uiEvent' = NoEvent
          /\ UNCHANGED <<storeVars, inbox, capture>>

\* the Cancel button of edit mode
PressCancel ==
    /\ DetailActive
    /\ detail.isEditing
    /\ detail' = Synced([detail EXCEPT !.draftText = detail.originalText,
                                      !.isEditing = FALSE], ideas)
    /\ uiEvent' = NoEvent
    /\ UNCHANGED <<storeVars, inbox, capture>>

\* as PressSave, writing the draft as it was typed
PressSaveUntrimmed ==
    /\ DetailActive
    /\ detail.isEditing
    /\ uiEvent' = "pressSave"
    /\ IF ~CanSave(detail)
       THEN UNCHANGED <<storeVars, inbox, capture, detail>>
       ELSE LET id == DetailIdea(ideas)[1].id
                updates == [text |-> detail.draftText]
            IN  /\ StoreCalled("updateIdea", id, Updated(ideas, id, updates))
                /\ lastArgs' = updates
                /\ detail' = Synced([detail EXCEPT !.isEditing = FALSE], ideas')
                /\ UNCHANGED <<inbox, capture>>

\* the Save button of edit mode: disabled unless canSave; calls updateIdea
\* with the trimmed draft and leaves edit mode
PressSave ==
    /\ DetailActive
    /\ detail.isEditing
    /\ uiEvent' = "pressSave"
    /\ IF ~CanSave(detail)
       THEN UNCHANGED <<storeVars, inbox, capture, detail>>
       ELSE LET id == DetailIdea(ideas)[1].id
                updates == [text |-> TrimmedDraft(detail)]
            IN  /\ StoreCalled("updateIdea", id, Updated(ideas, id, updates))
                /\ lastArgs' = updates
                /\ detail' = Synced([detail EXCEPT !.isEditing = FALSE], ideas')
                /\ UNCHANGED <<inbox, capture>>

\* the pin button of the detail header, shown while not editing
DetailTogglePinned ==
    /\ DetailActive
    /\ ~detail.isEditing
    /\ StoreCalled("togglePinned", detail.id, PinToggled(ideas, detail.id))
    /\ lastArgs' = NoArgs
    /\ detail' = Synced(detail, ideas')
    /\ uiEvent' = NoEvent
    /\ UNCHANGED <<inbox, capture>>

\* the archive button of the detail header, shown while not editing
DetailToggleArchived ==
    /\ DetailActive
    /\ ~detail.isEditing
    /\ StoreCalled("toggleArchived", detail.id,
                   ArchiveToggled(ideas, detail.id))
    /\ lastArgs' = NoArgs
    /\ detail' = Synced(detail, ideas')
    /\ uiEvent' = NoEvent
    /\ UNCHANGED <<inbox, capture>>

\* as BeforeRemove, preventing the removal whenever the screen is editing
BeforeRemoveWhenEditing ==
    /\ detail.open /\ ~detail.alert
    /\ uiEvent' = "beforeRemove"
    /\ detail' = IF ~detail.isEditing THEN NoDetail
                 ELSE [detail EXCEPT !.alert = TRUE]
    /\ UNCHANGED <<storeVars, inbox, capture>>

\* the user leaves the detail screen (Back, gesture): the beforeRemove
\* listener lets the removal go on, or prevents it and puts up the alert
BeforeRemove ==
    /\ detail.open /\ ~detail.alert
    /\ uiEvent' = "beforeRemove"
    /\ detail' = IF ~detail.isEditing \/ ~IsDirty(detail) THEN NoDetail
                 ELSE [detail EXCEPT !.alert = TRUE]
    /\ UNCHANGED <<storeVars, inbox, capture>>

\* Stay is chosen in the alert
AlertStay ==
    /\ detail.open /\ detail.alert
    /\ detail' = [detail EXCEPT !.alert = FALSE]
    /\ uiEvent' = "alertStay"
    /\ UNCHANGED <<storeVars, inbox, capture>>

\* Discard is chosen in the alert: setIsEditing(false) and the prevented
\* action is dispatched again, which the listener does not see twice
AlertDiscard ==
    /\ detail.open /\ detail.alert
    /\ detail' = NoDetail
    /\ uiEvent' = "alertDiscard"
    /\ UNCHANGED <<storeVars, inbox, capture>>

\* the app is started on an empty slot and shows its capture tab
InitUi ==
    /\ ideas = <<>>
    /\ hasHydratedRef = FALSE
    /\ isMountedRef = TRUE
    /\ loadPc = "awaiting"
    /\ writes = <<>>
    /\ slot = AbsentSlot
    /\ opCount = 0
    /\ unsaved = FALSE
    /\ lastOp = Op("mount", NoId)
    /\ lastArgs = NoArgs
    /\ inbox = NoInbox
    /\ capture = InitialCapture
    /\ detail = NoDetail
    /\ uiEvent = NoEvent

NextUi ==
    \/ SetIdeaText
    \/ SetCaptureCategory
    \/ SubmitIdea
    \/ InboxTogglePinned
    \/ InboxToggleArchived
    \/ InboxRemoveIdea
    \/ OpenDetail
    \/ PressEdit
    \/ ChangeDraft
    \/ PressCancel
    \/ PressSave
    \/ DetailTogglePinned
    \/ DetailToggleArchived
    \/ BeforeRemove
    \/ AlertStay
    \/ AlertDiscard
    \/ LoadResume

\* the screens over the store, with the end of hydration.  The setItem
\* calls stay in flight: WriteOk and WriteFail change neither the
\* collection nor a screen, and no handler reads the slot or `writes`.
SpecUi == InitUi /\ [][NextUi]_vars

\* the entries of the slot the detail screen is studied on: a text as the
\* screens write it, a text with blanks around it and an empty text, which
\* addIdea, updateIdea and loadIdeas all accept
DetailStored ==
    { Idea(<<100, "d01">>, TextBuyMilk, "Random", JsFalse, JsFalse, 100),
      Idea(<<200, "d02">>, TextBuyMilkPadded, "App", JsTrue, JsFalse, 200),
      Idea(<<300, "d03">>, <<>>, "Content", JsFalse, JsTrue, 300) }

DetailSlots ==
    { Slot("array", items) :
        items \in { s \in UNION { [1..n -> DetailStored] : n \in 1..MaxInbox } :
                      \A i, j \in DOMAIN s : i # j => s[i] # s[j] } }

\* the app was started on a stored array, hydration is done, its write has
\* settled and the tabs are shown
InitDetail ==
    /\ slot \in DetailSlots
    /\ ideas = Normalize(slot.items)
    /\ hasHydratedRef = TRUE
    /\ isMountedRef = TRUE
    /\ loadPc = "done"
    /\ writes = <<>>
    /\ opCount = 0
    /\ unsaved = FALSE
    /\ lastOp = Op("setItemOk", NoId)
    /\ lastArgs = NoArgs
    /\ inbox = NoInbox
    /\ capture = InitialCapture
    /\ detail = NoDetail
    /\ uiEvent = NoEvent

NextDetail ==
    \/ OpenDetail
    \/ PressEdit
    \/ ChangeDraft
    \/ PressCancel
    \/ PressSave
    \/ DetailTogglePinned
    \/ DetailToggleArchived
    \/ BeforeRemove
    \/ AlertStay
    \/ AlertDiscard

\* the detail screen over the store; the setItem calls stay in flight
SpecDetail == InitDetail /\ [][NextDetail]_vars

----------------------------------------------------------------------------
(* Steps, as seen from the variables *)

\* the step is a call of the store operation `name`
OpStep(name) == opCount' = opCount + 1 /\ lastOp'.op = name

\* the step is the end of loadIdeas
LoadStep == loadPc = "awaiting" /\ loadPc' = "done"

\* the step is a rejected setItem
RejectStep ==
    /\ lastOp'.op = "setItemFailed"
    /\ lastOp.op # "setItemFailed" \/ Len(writes') < Len(writes)

\* the step is a run of submitIdea
SubmitStep ==
    /\ uiEvent' = "submitIdea"
    /\ loadPc' = loadPc
    /\ uiEvent # "submitIdea" \/ opCount' = opCount + 1

\* the step is a run of the beforeRemove listener of the detail screen
LeaveStep == uiEvent' = "beforeRemove" /\ detail' # detail

\* the step is the press of a button of the alert
AlertStep(name) == uiEvent' = name /\ detail.open /\ detail.alert

\* the step is the press of Edit: the screen enters edit mode
EditStep == detail.open /\ ~detail.isEditing /\ detail'.open /\ detail'.isEditing

\* the step is a press of Save in edit mode
SaveStep ==
    /\ uiEvent' = "pressSave"
    /\ loadPc' = loadPc
    /\ uiEvent # "pressSave" \/ opCount' = opCount + 1

\* the two records differ in their flags at most
SameButFlags(a, b) ==
    /\ DOMAIN a \ FlagKeys = DOMAIN b \ FlagKeys
    /\ \A k \in DOMAIN a \ FlagKeys : a[k] = b[k]

\* the step is togglePinned called with the id of ideas, none of them
\* archived
PinStepOnNotArchived ==
    /\ OpStep("togglePinned")
    /\ lastOp'.id \in Ids(ideas)
    /\ \A i \in DOMAIN ideas :
          ideas[i].id = lastOp'.id => Get(ideas[i], "isArchived") # JsTrue

\* the step is toggleArchived called with the id of ideas, none of them
\* pinned
ArchiveStepOnNotPinned ==
    /\ OpStep("toggleArchived")
    /\ lastOp'.id \in Ids(ideas)
    /\ \A i \in DOMAIN ideas :
          ideas[i].id = lastOp'.id => Get(ideas[i], "isPinned") # JsTrue

\* `items` with the undefined flags of the entries `id` read as false
UndefinedAsFalse(items, id) ==
    [i \in DOMAIN items |->
        IF items[i].id = id
        THEN [k \in DOMAIN items[i] |->
                IF k \in FlagKeys /\ items[i][k] = Undefined THEN JsFalse
                ELSE items[i][k]]
        ELSE items[i]]

IsPinned(idea) == Get(idea, "isPinned") = JsTrue
IsArchived(idea) == Get(idea, "isArchived") = JsTrue

EntryOf(id) == ideas[CHOOSE i \in DOMAIN ideas : ideas[i].id = id]

----------------------------------------------------------------------------
(* Claims *)

\* C1: in every state reached without updateIdea from a slot that is empty
\* or holds no idea with both flags true, no idea is pinned and archived at
\* the same time.
C1_PinArchiveExclusive ==
    \A i \in DOMAIN ideas : ~(IsPinned(ideas[i]) /\ IsArchived(ideas[i]))

\* the pinned idea of the slot was archived by toggleArchived as first call
C1_Witness ==
    /\ opCount = 1
    /\ lastOp = Op("toggleArchived", StoredPinned.id)
    /\ StoredPinned.id \in Ids(ideas)
    /\ IsArchived(EntryOf(StoredPinned.id))

\* C2: an idea that is in the collection stays in it until removeIdea is
\* called with its id or clearIdeas is called; no other step, the end of
\* hydration included, drops it.
C2_IdeaStaysUntilRemoved ==
    [][\A id \in Ids(ideas) :
          \/ id \in Ids(ideas')
          \/ OpStep("removeIdea") /\ lastOp'.id = id
          \/ OpStep("clearIdeas")]_vars

\* C3: every call of a store operation is followed by a write of the
\* collection: once hydration is done, no call is left without a write
\* issued after it.
C3_MutationIsWritten ==
    (isMountedRef /\ loadPc = "done") => ~unsaved

\* C4: while hasHydratedRef is false no setItem is issued and the slot
\* keeps its content: a step that leaves the flag false issues no write,
\* and no step taken with the flag false changes the slot.
C4_NoWriteBeforeHydration ==
    [][/\ ~hasHydratedRef' => writes' = writes
       /\ ~hasHydratedRef => (writes = <<>> /\ slot' = slot)]_vars

\* a store operation was called while loadIdeas was waiting on a stored
\* array, and its autosave effect has run without a write
C4_Witness ==
    /\ ~hasHydratedRef
    /\ opCount > 0
    /\ ideas # <<>>
    /\ unsaved
    /\ slot.kind = "array"

\* C5: updateIdea, togglePinned and toggleArchived leave the id and the
\* createdAt of every idea as they were, whatever keys `updates` has.
C5_WriteOnceFields ==
    [][(OpStep("updateIdea") \/ OpStep("togglePinned") \/ OpStep("toggleArchived"))
        => /\ Len(ideas') = Len(ideas)
           /\ \A i \in DOMAIN ideas :
                /\ ideas'[i].id = ideas[i].id
                /\ ideas'[i].createdAt = ideas[i].createdAt]_vars

\* updateIdea was called on the stored idea with an `updates` that has the
\* keys id and createdAt, and its category was merged
C5_Witness ==
    /\ lastOp = Op("updateIdea", StoredBoth.id)
    /\ Len(ideas) = 1
    /\ ideas[1].id = StoredBoth.id
    /\ ideas[1].category = "Content"
    /\ ideas[1].createdAt = StoredBoth.createdAt

\* C6: removeIdea, updateIdea, togglePinned and toggleArchived called with
\* an id that no idea has leave the collection as it was.
C6_UnknownIdNoOp ==
    [][(/\ \/ OpStep("removeIdea") \/ OpStep("updateIdea")
           \/ OpStep("togglePinned") \/ OpStep("toggleArchived")
        /\ lastOp'.id \notin Ids(ideas))
        => ideas' = ideas]_vars

\* removeIdea was called with an id no idea has on a collection of two
C6_Witness ==
    /\ lastOp = Op("removeIdea", UnknownId)
    /\ Len(ideas) = 2

\* C7: the ids of the collection are pairwise distinct.
C7_UniqueIds ==
    \A i, j \in DOMAIN ideas : i # j => ideas[i].id # ideas[j].id

\* C8: when the slot cannot be read, fails to deserialize or is not an
\* array, loadIdeas ends with hasHydratedRef true and the collection as
\* the calls made so far left it: empty when none was made.
C8_FailedLoadStartsEmpty ==
    [][(LoadStep /\ slot.kind \in {"unreadable", "corrupt", "nonseq"})
        => /\ hasHydratedRef'
           /\ ideas' = ideas
           /\ (opCount = 0 => ideas' = <<>>)]_vars

\* loadIdeas has ended on a slot that does not parse
C8_Witness ==
    /\ loadPc = "done"
    /\ slot.kind = "corrupt"
    /\ opCount = 0
    /\ hasHydratedRef
    /\ ideas = <<>>

\* C9: a rejected setItem changes nothing but the set of writes in flight,
\* which loses that write: the collection keeps the change, nothing is
\* queued again, and the store stays hydrated and mounted as it was.
C9_WriteFailureIsDropped ==
    [][RejectStep
        => /\ ideas' = ideas
           /\ slot' = slot
           /\ \E i \in DOMAIN writes : writes' = DropAt(writes, i)
           /\ hasHydratedRef' = hasHydratedRef
           /\ isMountedRef' = isMountedRef
           /\ opCount' = opCount]_vars

\* the only write of a collection with an added idea was rejected: the
\* collection has the idea and the slot does not
C9_Witness ==
    /\ lastOp.op = "setItemFailed"
    /\ writes = <<>>
    /\ opCount = 1
    /\ Len(ideas) = 1
    /\ slot = AbsentSlot

\* C10: hydration from a stored array keeps the entries in order and every
\* key of every entry as stored, and adds false for each of the two flags
\* that the entry does not have.
C10_NormalizeOnLoad ==
    [][(LoadStep /\ slot.kind = "array" /\ isMountedRef)
        => /\ Len(ideas') = Len(slot.items)
           /\ \A i \in DOMAIN slot.items :
                /\ DOMAIN ideas'[i] = DOMAIN slot.items[i] \cup FlagKeys
                /\ \A k \in DOMAIN slot.items[i] :
                      ideas'[i][k] = slot.items[i][k]
                /\ \A k \in FlagKeys \ DOMAIN slot.items[i] :
                      ideas'[i][k] = JsFalse]_vars

\* the slot with the legacy entry and the entry without isArchived was
\* loaded
C10_Witness ==
    /\ loadPc = "done"
    /\ opCount = 0
    /\ Len(ideas) = 2
    /\ ideas[1].isOutside = JsTrue
    /\ ideas[1].isPinned = JsFalse /\ ideas[1].isArchived = JsFalse
    /\ ideas[2].isPinned = JsTrue /\ ideas[2].isArchived = JsFalse

\* C11: togglePinned called with the id of an idea flips its isPinned and
\* toggleArchived its isArchived; when the new value is true the other flag
\* becomes false, when it is false the other flag keeps the value it had.
\* So an added idea has (false, false), then togglePinned gives
\* (true, false), then toggleArchived gives (false, true).
C11_ToggleSemantics ==
    [][\A i \in DOMAIN ideas :
          /\ (OpStep("togglePinned") /\ lastOp'.id = ideas[i].id)
                => /\ ideas'[i].isPinned =
                        (IF IsPinned(ideas[i]) THEN JsFalse ELSE JsTrue)
                   /\ IF ideas'[i].isPinned = JsTrue
                      THEN ideas'[i].isArchived = JsFalse
                      ELSE ideas'[i].isArchived = Get(ideas[i], "isArchived")
          /\ (OpStep("toggleArchived") /\ lastOp'.id = ideas[i].id)
                => /\ ideas'[i].isArchived =
                        (IF IsArchived(ideas[i]) THEN JsFalse ELSE JsTrue)
                   /\ IF ideas'[i].isArchived = JsTrue
                      THEN ideas'[i].isPinned = JsFalse
                      ELSE ideas'[i].isPinned = Get(ideas[i], "isPinned")]_vars

\* an idea was added to the empty collection and then pinned by
\* togglePinned: it is pinned and not archived
C11_Witness ==
    /\ opCount = 2
    /\ lastOp.op = "togglePinned"
    /\ slot = AbsentSlot
    /\ Len(ideas) = 1
    /\ lastOp.id = ideas[1].id
    /\ ideas[1].isPinned = JsTrue
    /\ ideas[1].isArchived = JsFalse

\* C12: addIdea adds exactly one idea, at the end, with the text and the
\* category it was given, both flags false and createdAt the current time;
\* the earlier entries keep their values and their order; and the added
\* entry is distinct from every entry that was there, so that two calls
\* with the same input give two distinct entries.
C12_CreateAppendsDistinct ==
    [][OpStep("addIdea")
        => /\ Len(ideas') = Len(ideas) + 1
           /\ SubSeq(ideas', 1, Len(ideas)) = ideas
           /\ LET new == ideas'[Len(ideas')]
              IN  /\ new.text = lastArgs'.text
                  /\ new.category = lastArgs'.category
                  /\ new.isPinned = JsFalse
                  /\ new.isArchived = JsFalse
                  /\ new.createdAt = lastArgs'.now
                  /\ \A i \in DOMAIN ideas : ideas[i] # new]_vars

\* the collection that hydration gives from the serialized `s`
RoundTrip(s) == Normalize(Stringify(s).items)

\* C13 as stated: every collection of the store, serialized and hydrated
\* again, comes back equal field for field, in the same order.
C13_RoundTripExact == RoundTrip(ideas) = ideas

\* C13: every collection of the store, serialized and hydrated again, comes
\* back with the same entries in the same order and every field as it was,
\* except that a flag that held undefined comes back false.
C13_RoundTripUpToUndefined ==
    RoundTrip(ideas) =
        [i \in DOMAIN ideas |->
            [k \in DOMAIN ideas[i] |->
                IF k \in FlagKeys /\ ideas[i][k] = Undefined THEN JsFalse
                ELSE ideas[i][k]]]

\* a collection of two in which updateIdea stored undefined in isArchived
\* of the first entry, next to a pinned entry
C13_Witness ==
    /\ Len(ideas) = 2
    /\ ideas[1].isArchived = Undefined
    /\ ideas[2].isPinned = JsTrue
    /\ lastOp.op = "updateIdea"

\* C14: updateIdea writes isPinned and isArchived as it is given them and
\* leaves a flag it is not given as it was, with no exclusion between the
\* two: given both true it leaves both true, and given isPinned true on an
\* archived idea it leaves the idea pinned and archived.
C14_UpdateSetsFlagsAsGiven ==
    [][OpStep("updateIdea")
        => \A i \in DOMAIN ideas : \A k \in FlagKeys :
              lastOp'.id = ideas[i].id
                => IF k \in DOMAIN lastArgs'
                   THEN ideas'[i][k] = lastArgs'[k]
                   ELSE Get(ideas'[i], k) = Get(ideas[i], k)]_vars

\* the legacy idea, archived by the first call, was given isPinned true
\* and nothing else by updateIdea as second call: it is pinned and archived
C14_Witness ==
    /\ opCount = 2
    /\ lastOp.op = "updateIdea"
    /\ lastArgs = [isPinned |-> JsTrue]
    /\ lastOp.id = LegacyIdea.id
    /\ \E i \in DOMAIN ideas :
          /\ ideas[i].id = LegacyIdea.id
          /\ IsPinned(ideas[i]) /\ IsArchived(ideas[i])

\* C15: removeIdea called with an id of the collection deletes exactly the
\* entries that have this id: no entry has it afterwards, and every other
\* entry is kept with its values, in the same relative order.
C15_RemoveDeletesExactlyId ==
    [][(OpStep("removeIdea") /\ lastOp'.id \in Ids(ideas))
        => LET kept == { i \in DOMAIN ideas : ideas[i].id # lastOp'.id }
               \* the place of the kept entry i among the kept entries
               Rank(i) == Cardinality({ j \in kept : j <= i })
           IN  /\ lastOp'.id \notin Ids(ideas')
               /\ Len(ideas') = Cardinality(kept)
               /\ \A i \in kept : ideas'[Rank(i)] = ideas[i]]_vars

\* the first of the two loaded ideas was removed: the second is the
\* collection
C15_Witness ==
    /\ lastOp = Op("removeIdea", LegacyIdea.id)
    /\ opCount = 1
    /\ Len(ideas) = 1
    /\ ideas[1].id = StoredPinned.id

\* C16: clearIdeas leaves the collection empty whatever it held, and when
\* hydration is done the write issued for it carries the empty collection.
C16_ClearEmptiesAndWrites ==
    [][OpStep("clearIdeas")
        => /\ ideas' = <<>>
           /\ hasHydratedRef
                => writes' = Append(writes, Slot("array", <<>>))]_vars

\* clearIdeas was the first call after a stored array was loaded: the
\* collection is empty and the write of the empty array is the last issued
C16_Witness ==
    /\ lastOp.op = "clearIdeas"
    /\ opCount = 1
    /\ loadPc = "done" /\ isMountedRef
    /\ slot.kind = "array" /\ slot.items # <<>>
    /\ ideas = <<>>
    /\ writes # <<>>
    /\ writes[Len(writes)] = Slot("array", <<>>)

\* the elements of a sequence
Range(s) == { s[i] : i \in DOMAIN s }

\* the idea passes the archive filter and the category filter of the inbox
PassesOtherFilters(idea) ==
    /\ inbox.showArchived <=> IsArchived(idea)
    /\ inbox.selectedCategory \in {"All", idea.category}

\* C17: when the trimmed search text is not empty, an idea (among those
\* the archive and category filters let through) is visible exactly when
\* its text, lowercased and with every run of whitespace collapsed to one
\* space, contains the trimmed search text normalized in the same way; when
\* the search text is empty or whitespace only, every such idea is visible.
C17_SearchMatchesNormalized ==
    LET trimmed == Trim(inbox.searchQuery)
        Normal(text) == CollapseWhitespace(ToLowerCase(text))
    IN  \A i \in DOMAIN ideas :
            PassesOtherFilters(ideas[i])
                => (ideas[i] \in Range(inbox.visibleIdeas)
                      <=> \/ trimmed = <<>>
                          \/ Includes(Normal(ideas[i].text), Normal(trimmed)))

\* the search text is "Buy  milk": "please buy milk today" and the text
\* with a tab and capitals are visible, "milkshake" is not
C17_Witness ==
    /\ inbox.searchQuery = QueryBuyMilk
    /\ ~inbox.showArchived /\ inbox.selectedCategory = "All"
    /\ Len(ideas) = 3
    /\ { ideas[i].text : i \in DOMAIN ideas }
          = {TextPleaseBuy, TextBuyMilkTab, TextMilkshake}
    /\ { inbox.visibleIdeas[i].text : i \in DOMAIN inbox.visibleIdeas }
          = {TextPleaseBuy, TextBuyMilkTab}

\* the place of an idea in the collection
PlaceIn(s, idea) == CHOOSE i \in DOMAIN s : s[i] = idea

\* C18: the visible list is the filtered ideas reordered, none lost and
\* none added: by createdAt descending for "newest" and ascending for
\* "oldest", and in both cases two ideas with the same createdAt come in
\* the order they have in the collection.
C18_SortIsStablePermutation ==
    LET visible == inbox.visibleIdeas
        filtered == CategoryFiltered(
                        SearchFiltered(ArchiveFiltered(ideas, inbox.showArchived),
                                       inbox.searchQuery),
                        inbox.selectedCategory)
    IN  /\ Len(visible) = Len(filtered)
        /\ Range(visible) = Range(filtered)
        /\ \A j, k \in DOMAIN visible :
              j < k =>
                /\ inbox.sortOrder = "newest"
                      => visible[j].createdAt >= visible[k].createdAt
                /\ inbox.sortOrder = "oldest"
                      => visible[j].createdAt <= visible[k].createdAt
                /\ visible[j].createdAt = visible[k].createdAt
                      => PlaceIn(ideas, visible[j]) < PlaceIn(ideas, visible[k])

\* the collection is A, B, C with createdAt 100, 100, 200 and the order is
\* "newest": the visible list is C, A, B
C18_Witness ==
    /\ inbox.sortOrder = "newest"
    /\ inbox.searchQuery = <<>> /\ inbox.selectedCategory = "All"
    /\ ~inbox.showArchived
    /\ Len(ideas) = 3
    /\ ideas[1].createdAt = 100 /\ ideas[2].createdAt = 100
    /\ ideas[3].createdAt = 200
    /\ inbox.visibleIdeas = <<ideas[3], ideas[1], ideas[2]>>

\* what the inbox shows in its other view, the filters being the same
OtherView ==
    VisibleIdeas(ideas, ~inbox.showArchived, inbox.searchQuery,
                 inbox.selectedCategory, inbox.sortOrder)

\* C19: with no search text and the category "All", every idea of the
\* collection is shown in exactly one of the two views: in the archived
\* view when its isArchived is true and in the normal view otherwise; the
\* two views have no idea in common and together hold the collection.
C19_ArchivePartition ==
    (Trim(inbox.searchQuery) = <<>> /\ inbox.selectedCategory = "All")
        => LET archivedView == IF inbox.showArchived THEN inbox.visibleIdeas
                               ELSE OtherView
               normalView == IF inbox.showArchived THEN OtherView
                             ELSE inbox.visibleIdeas
           IN  /\ \A i \in DOMAIN ideas :
                     /\ ideas[i] \in Range(archivedView) <=> IsArchived(ideas[i])
                     /\ ideas[i] \in Range(normalView) <=> ~IsArchived(ideas[i])
               /\ Range(archivedView) \cap Range(normalView) = {}
               /\ Range(archivedView) \cup Range(normalView) = Range(ideas)
               /\ Len(archivedView) + Len(normalView) = Len(ideas)

\* the archived view of a collection of three, with no search text and
\* the category "All", shows its one archived idea and not the other two
C19_Witness ==
    /\ inbox.showArchived
    /\ inbox.searchQuery = <<>> /\ inbox.selectedCategory = "All"
    /\ Len(ideas) = 3
    /\ Len(inbox.visibleIdeas) = 1
    /\ IsArchived(inbox.visibleIdeas[1])
    /\ Len(OtherView) = 2

\* s is made of elements of t, each at most once, in the order of t
IsSubSeqOf(s, t) ==
    /\ Range(s) \subseteq Range(t)
    /\ \A j, k \in DOMAIN s :
          j < k => PlaceIn(t, s[j]) < PlaceIn(t, s[k])

\* C20: in the normal view the visible list is split into the pinned
\* section (isPinned true) and the regular list (the rest): every visible
\* idea is in exactly one of them, and each keeps the order of the visible
\* list; in the archived view the pinned section is empty and the regular
\* list is the visible list.
C20_PinSplit ==
    LET visible == inbox.visibleIdeas
        pinned == inbox.pinnedIdeas
        regular == inbox.regularIdeas
    IN  IF inbox.showArchived
        THEN pinned = <<>> /\ regular = visible
        ELSE /\ \A i \in DOMAIN visible :
                  /\ visible[i] \in Range(pinned) <=> IsPinned(visible[i])
                  /\ visible[i] \in Range(regular) <=> ~IsPinned(visible[i])
             /\ Len(pinned) + Len(regular) = Len(visible)
             /\ IsSubSeqOf(pinned, visible)
             /\ IsSubSeqOf(regular, visible)

\* the normal view of a collection of three shows one pinned idea in the
\* pinned section and the two others, newest first, in the regular list
C20_Witness ==
    /\ ~inbox.showArchived
    /\ inbox.sortOrder = "newest"
    /\ Len(inbox.visibleIdeas) = 3
    /\ Len(inbox.pinnedIdeas) = 1
    /\ IsPinned(inbox.pinnedIdeas[1])
    /\ Len(inbox.regularIdeas) = 2
    /\ inbox.regularIdeas[1].createdAt > inbox.regularIdeas[2].createdAt

\* the text of the idea matches the search text of the inbox
MatchesSearch(idea) ==
    LET trimmed == Trim(inbox.searchQuery)
        Normal(text) == CollapseWhitespace(ToLowerCase(text))
    IN  trimmed = <<>> \/ Includes(Normal(idea.text), Normal(trimmed))

\* C21: the visible list holds exactly the ideas of the collection that
\* pass the three filters together: the archive state is that of the view,
\* the text matches the search text, and the category is the selected one
\* unless "All" is selected.  So a selected category shows no idea of
\* another category, and "All" removes no idea.
C21_CombinedFilters ==
    /\ Range(inbox.visibleIdeas) =
          { idea \in Range(ideas) :
              /\ inbox.showArchived <=> IsArchived(idea)
              /\ MatchesSearch(idea)
              /\ inbox.selectedCategory = "All"
                    \/ idea.category = inbox.selectedCategory }
    /\ Len(inbox.visibleIdeas) = Cardinality(Range(inbox.visibleIdeas))

\* the search text " MILK " and the category "Random" in the normal view
\* of three ideas that all match the text: one is shown, one is left out
\* as archived and one for its category
C21_Witness ==
    /\ inbox.searchQuery = QueryMilk
    /\ inbox.selectedCategory = "Random"
    /\ ~inbox.showArchived
    /\ { ideas[i].text : i \in DOMAIN ideas }
          = {TextPleaseBuy, TextBuyMilk, TextBuyMilkTab}
    /\ Len(inbox.visibleIdeas) = 1
    /\ inbox.visibleIdeas[1].text = TextPleaseBuy

\* C22: addIdea takes a blank text as it takes any other, and the capture
\* form is what keeps blank texts out: submitIdea calls addIdea only when
\* the text of the form is not empty after trimming, passes the trimmed
\* text, and otherwise leaves the collection as it was and calls nothing.
C22_CaptureValidates ==
    [][/\ Added(<<>>, NewIdea([text |-> QueryBlank, category |-> "Random"],
                              100, "a3f", 100))
            = <<Idea(<<100, "a3f">>, QueryBlank, "Random", JsFalse, JsFalse,
                     100)>>
       /\ SubmitStep
            => IF Trim(capture.ideaText) = <<>>
               THEN /\ ideas' = ideas
                    /\ opCount' = opCount
                    /\ writes' = writes
               ELSE /\ OpStep("addIdea")
                    /\ lastArgs'.text = Trim(capture.ideaText)
                    /\ Len(ideas') = Len(ideas) + 1
                    /\ SubSeq(ideas', 1, Len(ideas)) = ideas
                    /\ ideas'[Len(ideas')].text = Trim(capture.ideaText)]_vars

\* " buy milk " was submitted and stored as "buy milk"; then the form,
\* holding blanks only, was submitted and the collection is as it was
C22_Witness ==
    /\ uiEvent = "submitIdea"
    /\ capture.ideaText = QueryBlank
    /\ opCount = 1
    /\ lastOp.op = "addIdea"
    /\ Len(ideas) = 1
    /\ ideas[1].text = TextBuyMilk

\* the detail screen is editing a draft whose trimmed text is not the
\* original text
EditingDirty ==
    /\ detail.open
    /\ detail.isEditing
    /\ Trim(detail.draftText) # detail.originalText

\* C23: an attempt to leave the detail screen while it is editing a dirty
\* draft is blocked: the screen stays, with its draft, and the alert comes
\* up.  From there Stay keeps the screen and the draft and only Discard
\* leaves, and it changes neither the collection nor what is written.  An
\* attempt to leave while not editing, or with a draft that is not dirty,
\* leaves at once.
C23_DirtyGuard ==
    [][/\ (LeaveStep /\ EditingDirty)
            => /\ detail' = [detail EXCEPT !.alert = TRUE]
               /\ ideas' = ideas
       /\ (LeaveStep /\ ~EditingDirty) => ~detail'.open
       /\ (detail.open /\ detail.alert)
            => \/ AlertStep("alertStay")
                    /\ detail' = [detail EXCEPT !.alert = FALSE]
                    /\ ideas' = ideas
               \/ AlertStep("alertDiscard")
                    /\ ~detail'.open
                    /\ ideas' = ideas /\ writes' = writes /\ slot' = slot
       /\ (detail.open /\ ~detail'.open)
            => \/ AlertStep("alertDiscard")
               \/ LeaveStep /\ ~EditingDirty]_vars

\* the user tried to leave while editing a draft that differs from the
\* original after trimming: the screen is still there, with the alert up
C23_Witness ==
    /\ uiEvent = "beforeRemove"
    /\ detail.open /\ detail.alert
    /\ detail.isEditing
    /\ detail.originalText = TextBuyMilk
    /\ detail.draftText = QueryBlank

\* C24: hasHydratedRef starts false; it changes only at the end of
\* loadIdeas, which sets it true whichever way the load ends (an array, an
\* absent slot, a rejected read, text that does not parse), once, and it
\* never goes back to false; and when getItem is settled at some time the
\* flag is true from some time on.
C24_HydratedOnce ==
    /\ ~hasHydratedRef
    /\ [][/\ hasHydratedRef => hasHydratedRef'
          /\ LoadStep => (~hasHydratedRef /\ hasHydratedRef')
          /\ hasHydratedRef' # hasHydratedRef => LoadStep]_vars
    /\ <>[]hasHydratedRef

\* loadIdeas has ended on a rejected read after the provider was
\* unmounted, and the flag is true
C24_Witness ==
    /\ hasHydratedRef
    /\ loadPc = "done"
    /\ slot.kind = "unreadable"
    /\ ~isMountedRef

\* C25: when no setItem is rejected, once every setItem that was issued
\* has been fulfilled, in whatever order, the slot holds the serialization
\* of the collection as it is now.
C25_SettledSlotIsLatest ==
    (lastOp.op = "setItemOk" /\ writes = <<>>) => slot = Stringify(ideas)

\* C26: started on an empty slot and driven by the screens only (capture
\* submit, Save of the detail screen, the pin and archive buttons, delete),
\* the collection never holds an idea whose text is empty or differs from
\* its trimmed form; and Save calls updateIdea only when the trimmed draft
\* is not empty and differs from the original text, with the trimmed draft
\* as the new text.
C26_UiTextsTrimmed ==
    /\ [](\A i \in DOMAIN ideas :
            ideas[i].text # <<>> /\ Trim(ideas[i].text) = ideas[i].text)
    /\ [][SaveStep
            => IF Trim(detail.draftText) # <<>>
                  /\ Trim(detail.draftText) # detail.originalText
               THEN /\ OpStep("updateIdea")
                    /\ lastOp'.id = detail.id
                    /\ lastArgs' = [text |-> Trim(detail.draftText)]
                    /\ \A i \in DOMAIN ideas' :
                          ideas'[i].id = detail.id
                            => ideas'[i].text = Trim(detail.draftText)
               ELSE ideas' = ideas /\ opCount' = opCount]_vars

\* "ship v1" was captured, opened, edited to " buy milk " and saved: the
\* idea holds "buy milk" and the screen has left edit mode
C26_Witness ==
    /\ uiEvent = "pressSave"
    /\ lastOp.op = "updateIdea"
    /\ opCount = 2
    /\ Len(ideas) = 1
    /\ ideas[1].text = TextBuyMilk
    /\ detail.open /\ ~detail.isEditing
    /\ detail.originalText = TextBuyMilk

\* C27: right after Edit is pressed, for whatever idea of the collection
\* the screen shows, the trimmed draft equals the original text, Save is
\* disabled and an attempt to leave would not be blocked.
C27_EditIsNotDirty ==
    [][EditStep
         => /\ Trim(detail'.draftText) = detail'.originalText
            /\ ~CanSave(detail')
            /\ ~EditingDirty']_vars

\* C28: an idea of the collection whose isArchived is true is never in the
\* pinned section, whatever the filters and whatever its isPinned; where
\* the inbox shows it, the view is the archived view and the idea is in
\* the regular list.
C28_ArchivedNeverInPinnedSection ==
    \A i \in DOMAIN ideas :
        IsArchived(ideas[i])
          => /\ ideas[i] \notin Range(inbox.pinnedIdeas)
             /\ ideas[i] \in Range(inbox.visibleIdeas)
                  => /\ inbox.showArchived
                     /\ ideas[i] \in Range(inbox.regularIdeas)

\* the archived view shows an idea that is both pinned and archived in the
\* regular list, the pinned section being empty, while a pinned idea that
\* is not archived is in the collection too
C28_Witness ==
    /\ inbox.showArchived
    /\ inbox.pinnedIdeas = <<>>
    /\ \E i \in DOMAIN inbox.regularIdeas :
          IsPinned(inbox.regularIdeas[i]) /\ IsArchived(inbox.regularIdeas[i])
    /\ \E i \in DOMAIN ideas : IsPinned(ideas[i]) /\ ~IsArchived(ideas[i])

\* C29: togglePinned and toggleArchived called with the id of an idea keep
\* the length and the order of the collection; the entries with that id
\* keep every field but isPinned and isArchived (their text and category
\* among them), and every other entry keeps all its fields.
C29_ToggleFrame ==
    [][((OpStep("togglePinned") \/ OpStep("toggleArchived"))
         /\ lastOp'.id \in Ids(ideas))
        => /\ Len(ideas') = Len(ideas)
           /\ \A i \in DOMAIN ideas :
                 IF ideas[i].id = lastOp'.id
                 THEN /\ SameButFlags(ideas'[i], ideas[i])
                      /\ ideas'[i].id = ideas[i].id
                      /\ ideas'[i].text = ideas[i].text
                      /\ ideas'[i].category = ideas[i].category
                 ELSE ideas'[i] = ideas[i]]_vars

\* after hydration a collection of at least two ideas had its second idea
\* pinned by togglePinned, the first one having another id
C29_Witness ==
    /\ loadPc = "done"
    /\ lastOp.op = "togglePinned"
    /\ Len(ideas) >= 2
    /\ lastOp.id = ideas[2].id
    /\ ideas[1].id # lastOp.id
    /\ IsPinned(ideas[2])

\* C30 as stated: every call of togglePinned(id) and toggleArchived(id)
\* sets the collection to what its updater gives; after togglePinned(id) on
\* an idea that is not archived, what a second togglePinned(id) gives is
\* the collection as it was before the first; and the same for
\* toggleArchived(id) on an idea that is not pinned.
C30_ToggleTwiceExact ==
    [][/\ OpStep("togglePinned") => ideas' = PinToggled(ideas, lastOp'.id)
       /\ OpStep("toggleArchived") => ideas' = ArchiveToggled(ideas, lastOp'.id)
       /\ PinStepOnNotArchived => PinToggled(ideas', lastOp'.id) = ideas
       /\ ArchiveStepOnNotPinned
            => ArchiveToggled(ideas', lastOp'.id) = ideas]_vars

\* C30: every call of togglePinned(id) and toggleArchived(id) sets the
\* collection to what its updater gives; after togglePinned(id) on an idea
\* that is not archived, what a second togglePinned(id) gives is the
\* collection as it was before the first, except that a flag of that idea
\* that held undefined is false; and the same for toggleArchived(id) on an
\* idea that is not pinned.
C30_ToggleTwiceUpToUndefined ==
    [][/\ OpStep("togglePinned") => ideas' = PinToggled(ideas, lastOp'.id)
       /\ OpStep("toggleArchived") => ideas' = ArchiveToggled(ideas, lastOp'.id)
       /\ PinStepOnNotArchived
            => PinToggled(ideas', lastOp'.id)
                 = UndefinedAsFalse(ideas, lastOp'.id)
       /\ ArchiveStepOnNotPinned
            => ArchiveToggled(ideas', lastOp'.id)
                 = UndefinedAsFalse(ideas, lastOp'.id)]_vars

\* after hydration togglePinned was called twice with the id of an idea:
\* the three writes in flight are those of the hydrated collection, of the
\* collection with the idea toggled, and of the hydrated collection again,
\* which is the collection now
C30_Witness ==
    /\ loadPc = "done"
    /\ opCount = 2
    /\ lastOp.op = "togglePinned"
    /\ lastOp.id \in Ids(ideas)
    /\ Len(writes) = 3
    /\ writes[1] = Stringify(ideas)
    /\ writes[2] = Stringify(PinToggled(ideas, lastOp.id))
    /\ writes[3] = Stringify(ideas)
    /\ writes[2] # writes[1]

\* the inbox is shown and its lists are those of its state
InboxOK ==
    /\ inbox.open
    /\ inbox = Rendered(ideas, inbox.searchQuery, inbox.selectedCategory,
                        inbox.sortOrder, inbox.showArchived)

TypeOK ==
    /\ hasHydratedRef \in BOOLEAN
    /\ isMountedRef \in BOOLEAN
    /\ unsaved \in BOOLEAN
    /\ loadPc \in {"awaiting", "done"}
    /\ opCount \in 0..MaxOps
    /\ \A i \in DOMAIN ideas :
          /\ ideas[i].category \in IdeaCategory
          /\ \A k \in FlagKeys : Get(ideas[i], k) \in {JsTrue, JsFalse, Undefined}

====
